---- MODULE Spec2Model ----
(***************************************************************************)
(* Model of app.py: the /process-reports request handler, the category     *)
(* enrichment, the five aggregators, the Pivot builder and the workbook    *)
(* hand-over.  A DataFrame is a record [columns, rows]: the set of column  *)
(* names it has and the sequence of its rows; a row is a function from     *)
(* every column name to a value, with the column's NaN where the frame     *)
(* has no such column or the cell is missing.                              *)
(***************************************************************************)
EXTENDS Integers, Sequences, FiniteSets, TLC

VARIABLES
    uploads,                \* files present in UPLOAD_FOLDER
    outputs,                \* file names present in OUTPUT_FOLDER
    request,                \* the request being answered (the handler's input)
    response,               \* the (body, status) pair the handler returned
    combined_market_df,     \* the new batch ("weekly") of the last run
    final_daily_finance_df, \* the ledger ("daily") of the last run
    tables_data,            \* result of generate_summary_tables of the last run
    pivot_df,               \* result of generate_pivot_worksheet of the last run
    dfs_to_save             \* the workbook handed to save_dataframes_to_excel

vars == <<uploads, outputs, request, response, combined_market_df,
          final_daily_finance_df, tables_data, pivot_df, dfs_to_save>>

-----------------------------------------------------------------------------
(* Bounds of the model *)

MaxLedger == 3          \* rows of a ledger in the table specification
MaxExtra == 2           \* rows of the new batch in the top-merchant specification
NumMerchants == 17      \* distinct merchants in the top-merchant specification
MaxFiles == 2           \* market files of one request
MaxMapRows == 2         \* rows of a mapping file and of a batch to enrich

-----------------------------------------------------------------------------
(* Values *)

None == [none |-> TRUE]

AllColumns == {"ShopName", "Market", "NameChinese", "MarketCode", "client_name",
               "CouponValue", "coupon_amount", "Sales Category"}

NumColumns == {"CouponValue", "coupon_amount"}

\* A missing cell.  Strings: "NaN"; client names (character tuples): the
\* empty tuple (an empty cell is read as NaN, never as ''); numbers: 0.
NaN(c) ==
    IF c \in NumColumns THEN 0
    ELSE IF c = "client_name" THEN << >>
    ELSE "NaN"

isna(c, v) == v = NaN(c)

\* Python's order of the strings used as market and merchant names
\* (code point order), ascending.
StrOrder ==
    <<"CdX", "CdY", "Daily Finance Report", "Kowloon Bay Weekend Food Market",
      "Kowloon Bay Weekend Food Market East", "Kowloon Bay Weekend Food Market West",
      "MARAE LIMITED", "MARAE LIMITED (TKO)", "MktX", "MktX/1", "MktX:1", "MktX_1",
      "MktY", "NmX", "NmY", "Pivot",
      "ShopB", "ShopB ", "T01", "T02", "T03", "T04", "T05", "T06", "T07", "T08", "T09",
      "T10", "T11", "T12", "T13", "T14", "T15", "T16", "T17", "T18", "T19",
      "T20", "U-shiduo", "U-shiduo (TKO)", "Weekly">>

Ord(s) == CHOOSE i \in 1..Len(StrOrder) : StrOrder[i] = s

\* Characters of client names and their code points' order.
CharOrder == <<" ", "A", "B", "C", "D", "H", "I", "J", "K", "L", "M", "O", "P",
               "S", "T", "U", "W", "Y", "a", "b", "c", "d", "j", "s">>

CharOrd(ch) == CHOOSE i \in 1..Len(CharOrder) : CharOrder[i] = ch

RECURSIVE LexLess(_, _)
LexLess(a, b) ==
    IF Len(b) = 0 THEN FALSE
    ELSE IF Len(a) = 0 THEN TRUE
    ELSE IF Head(a) = Head(b) THEN LexLess(Tail(a), Tail(b))
    ELSE CharOrd(Head(a)) < CharOrd(Head(b))

\* str.upper() on the characters above.
upper(ch) ==
    CASE ch = "a" -> "A" [] ch = "b" -> "B" [] ch = "c" -> "C" [] ch = "d" -> "D"
      [] ch = "j" -> "J" [] ch = "s" -> "S" [] OTHER -> ch

Upper(s) == [i \in 1..Len(s) |-> upper(s[i])]

\* Python's `key in s` on strings: s has key as a contiguous substring.
Contains(s, key) ==
    \E i \in 0..(Len(s) - Len(key)) :
        \A j \in 1..Len(key) : s[i + j] = key[j]

\* str.split()[0]: the first whitespace-delimited token.
RECURSIVE TakeToken(_)
TakeToken(s) ==
    IF Len(s) = 0 \/ Head(s) = " " THEN << >>
    ELSE <<Head(s)>> \o TakeToken(Tail(s))

RECURSIVE LStrip(_)
LStrip(s) == IF Len(s) > 0 /\ Head(s) = " " THEN LStrip(Tail(s)) ELSE s

FirstToken(s) == TakeToken(LStrip(s))

-----------------------------------------------------------------------------
(* DataFrames *)

DataFrame(cols, rows) == [columns |-> cols, rows |-> rows]

\* DataFrame.empty: some axis has length 0.
empty(df) == Len(df.rows) = 0 \/ df.columns = {}

RECURSIVE ConcatRows(_)
ConcatRows(dfs) ==
    IF Len(dfs) = 0 THEN << >> ELSE Head(dfs).rows \o ConcatRows(Tail(dfs))

\* Mutant of concat: the concatenation with repeated rows dropped
\* (drop_duplicates).
RECURSIVE DropDuplicates(_, _)
DropDuplicates(rows, seen) ==
    IF Len(rows) = 0 THEN << >>
    ELSE IF Head(rows) \in seen THEN DropDuplicates(Tail(rows), seen)
    ELSE <<Head(rows)>> \o DropDuplicates(Tail(rows), seen \cup {Head(rows)})

concat_drop_duplicates(dfs) ==
    [columns |-> UNION {dfs[i].columns : i \in 1..Len(dfs)},
     rows |-> DropDuplicates(ConcatRows(dfs), {})]

\* pd.concat(frames, ignore_index=True): the union of the columns, the rows
\* of the frames one after the other (cells of columns a frame lacks are NaN,
\* as they already are in its rows).
concat(dfs) ==
    DataFrame(UNION {dfs[i].columns : i \in 1..Len(dfs)}, ConcatRows(dfs))

Range(s) == {s[i] : i \in 1..Len(s)}

\* Number of rows of df whose cell in column c is v.
CountOf(rows, c, v) == Cardinality({i \in 1..Len(rows) : rows[i][c] = v})

\* Position of the first row with value v in column c.
FirstSeen(rows, c, v) ==
    CHOOSE i \in 1..Len(rows) :
        rows[i][c] = v /\ \A j \in 1..(i - 1) : rows[j][c] # v

-----------------------------------------------------------------------------
(* Sorting.  A Series is a sequence of [key, count] entries.  pandas leaves *)
(* the order of equal counts to the sort algorithm: `tie` is the order the  *)
(* build produces ("first": equal counts keep their order, "last": they     *)
(* come out reversed).                                                      *)

TieOrders == {"first", "last"}

Min(a, b) == IF a < b THEN a ELSE b

\* Mutant of sort_values: ascending order.
sort_values_ascending(s, tie) ==
    LET n == Len(s)
        pos == [i \in 1..n |->
                  1 + Cardinality({j \in 1..n :
                        \/ s[j].count < s[i].count
                        \/ /\ s[j].count = s[i].count
                           /\ IF tie = "first" THEN j < i ELSE j > i})]
    IN  [p \in 1..n |-> s[CHOOSE i \in 1..n : pos[i] = p]]

\* Series.sort_values(ascending=False): entry i goes behind the entries with
\* a greater count and those of its own count that the tie order puts first.
sort_values(s, tie) ==
    LET n == Len(s)
        pos == [i \in 1..n |->
                  1 + Cardinality({j \in 1..n :
                        \/ s[j].count > s[i].count
                        \/ /\ s[j].count = s[i].count
                           /\ IF tie = "first" THEN j < i ELSE j > i})]
    IN  [p \in 1..n |-> s[CHOOSE i \in 1..n : pos[i] = p]]

\* Series.head(n)
head(s, n) == SubSeq(s, 1, Min(n, Len(s)))

\* The distinct non-missing values of column c in order of first appearance.
RECURSIVE Unique(_, _, _)
Unique(rows, c, seen) ==
    IF Len(rows) = 0 THEN << >>
    ELSE LET v == Head(rows)[c]
         IN  IF isna(c, v) \/ v \in seen
             THEN Unique(Tail(rows), c, seen)
             ELSE <<v>> \o Unique(Tail(rows), c, seen \cup {v})

unique(rows, c) == Unique(rows, c, {})

\* Series.value_counts(): one entry per distinct non-missing value, sorted by
\* count descending.
value_counts(rows, c, tie) ==
    LET u == unique(rows, c)
    IN  sort_values([i \in 1..Len(u) |-> [key |-> u[i], count |-> CountOf(rows, c, u[i])]],
                    tie)

\* sorted() of a set of strings: its members in code point order.
sorted(S) == SelectSeq(StrOrder, LAMBDA x : x \in S)

\* The same for client names and for numbers.
RECURSIVE SortedNames(_)
SortedNames(S) ==
    IF S = {} THEN << >>
    ELSE LET m == CHOOSE x \in S : \A y \in S : x = y \/ LexLess(x, y)
         IN  <<m>> \o SortedNames(S \ {m})

RECURSIVE SortedNums(_)
SortedNums(S) ==
    IF S = {} THEN << >>
    ELSE LET m == CHOOSE x \in S : \A y \in S : x <= y
         IN  <<m>> \o SortedNums(S \ {m})

-----------------------------------------------------------------------------
(* get_client_short_name *)

short_name_map == <<<<"S", "J", "S">>, <<"K", "T", "M", "S", "S">>,
                    <<"H", "K", "W", "D", "A">>, <<"P", "L", "K">>,
                    <<"Y", "O", "T">>, <<"S", "I", "S">>>>

Unknown == <<"U", "n", "k">>

\* The split()[0] of a name made of whitespace only raises IndexError.
short_name_raises(client_name) ==
    /\ ~isna("client_name", client_name)
    /\ \A k \in 1..Len(short_name_map) : ~Contains(Upper(client_name), short_name_map[k])
    /\ FirstToken(client_name) = << >>

get_client_short_name(client_name) ==
    IF isna("client_name", client_name) THEN Unknown
    ELSE IF \E k \in 1..Len(short_name_map) :
                Contains(Upper(client_name), short_name_map[k])
    THEN short_name_map[CHOOSE k \in 1..Len(short_name_map) :
            /\ Contains(Upper(client_name), short_name_map[k])
            /\ \A j \in 1..(k - 1) : ~Contains(Upper(client_name), short_name_map[j])]
    ELSE FirstToken(client_name)

-----------------------------------------------------------------------------
(* Aggregators.  An aggregate table is [title, columns, data]; `data` is    *)
(* the table (the html rendering shows the same frame).                     *)

\* generate_coupon_purchased_table
coupon_value_col(weekly_df) ==
    IF "CouponValue" \in weekly_df.columns THEN "CouponValue" ELSE "coupon_amount"

\* groupby(['client_name', value_col]).size().unstack(fill_value=0): the rows
\* whose client and value are both present, one table row per raw client name
\* (ascending), one column per value (ascending).
coupon_data(weekly_df, value_col) ==
    LET rows == weekly_df.rows
        kept == {i \in 1..Len(rows) : /\ ~isna("client_name", rows[i]["client_name"])
                                      /\ ~isna(value_col, rows[i][value_col])}
        clients == SortedNames({rows[i]["client_name"] : i \in kept})
        values == {rows[i][value_col] : i \in kept}
    IN  [i \in 1..Len(clients) |->
            [index |-> clients[i],
             cells |-> [v \in values |->
                Cardinality({k \in kept : /\ rows[k]["client_name"] = clients[i]
                                          /\ rows[k][value_col] = v})]]]

\* coupon_data.index = [get_client_short_name(c) for c in coupon_data.index]
short_index(table) ==
    [i \in 1..Len(table) |->
        [index |-> get_client_short_name(table[i].index), cells |-> table[i].cells]]

\* DataFrame.to_dict('index') raises ValueError when the index is not unique.
index_is_unique(table) ==
    \A i, j \in 1..Len(table) : table[i].index = table[j].index => i = j

generate_coupon_purchased_table(weekly_df) ==
    IF empty(weekly_df) \/ "client_name" \notin weekly_df.columns THEN None
    ELSE LET value_col == coupon_value_col(weekly_df)
         IN  IF value_col \notin weekly_df.columns THEN None
             ELSE LET raw == coupon_data(weekly_df, value_col)
                      table == short_index(raw)
                  IN  IF \/ \E i \in 1..Len(raw) : short_name_raises(raw[i].index)
                         \/ ~index_is_unique(table)
                      THEN None      \* except Exception: return None
                      ELSE [title |-> "No. of Coupon Purchased",
                            columns |-> <<"Client">>
                                \o SortedNums(IF Len(raw) = 0 THEN {}
                                              ELSE DOMAIN raw[1].cells),
                            html |-> table,
                            data |-> [c \in {table[i].index : i \in 1..Len(table)} |->
                                        table[CHOOSE i \in 1..Len(table) :
                                                table[i].index = c].cells]]

\* generate_distributed_coupon_table
generate_distributed_coupon_table(weekly_df) ==
    IF empty(weekly_df) \/ "client_name" \notin weekly_df.columns THEN None
    ELSE LET rows == weekly_df.rows
             clients == SortedNames({rows[i]["client_name"] : i \in 1..Len(rows)}
                                    \ {NaN("client_name")})
         IN  IF \E i \in 1..Len(clients) : short_name_raises(clients[i])
             THEN None
             ELSE [title |-> "No. of Distributed Coupon",
                   columns |-> <<"Client", "Used", "Unused", "Total">>,
                   data |-> [i \in 1..Len(clients) |->
                        [Client |-> get_client_short_name(clients[i]),
                         Used |-> CountOf(rows, "client_name", clients[i]),
                         Unused |-> 0,
                         Total |-> CountOf(rows, "client_name", clients[i])]]]

\* The market column of the Used-Market aggregator.
used_market_col(df) ==
    IF "Market" \in df.columns THEN "Market"
    ELSE IF "NameChinese" \in df.columns THEN "NameChinese"
    ELSE IF "MarketCode" \in df.columns THEN "MarketCode"
    ELSE "None"

\* The weekly / all-records pair of an aggregator: the entries whose frame
\* qualifies, or None when neither does.
Pair(hasWeekly, weekly, hasAll, all) ==
    LET keys == (IF hasWeekly THEN {"weekly"} ELSE {}) \cup
                (IF hasAll THEN {"all"} ELSE {})
    IN  IF keys = {} THEN None
        ELSE [k \in keys |-> IF k = "weekly" THEN weekly ELSE all]

used_market_usage(df, tie) ==
    sort_values(value_counts(df.rows, used_market_col(df), tie), tie)

generate_used_market_table(weekly_df, daily_df, tie) ==
    Pair(~empty(weekly_df) /\ used_market_col(weekly_df) # "None",
         [title |-> "Used Market (Weekly)",
          columns |-> <<"Market", "No. of Coupon Used">>,
          data |-> used_market_usage(weekly_df, tie)],
         ~empty(daily_df) /\ used_market_col(daily_df) # "None",
         [title |-> "Used Market (All Records)",
          columns |-> <<"Market", "No. of Coupon Used">>,
          data |-> used_market_usage(daily_df, tie)])

TopN == 15

\* Mutant of top_merchants: the first 15 merchants in order of appearance
\* (value_counts(sort=False)), then sorted.
top_merchants_first_seen(df, tie) ==
    LET u == unique(df.rows, "ShopName")
    IN  sort_values(head([i \in 1..Len(u) |->
                            [key |-> u[i], count |-> CountOf(df.rows, "ShopName", u[i])]],
                         TopN), tie)

\* value_counts().head(15).sort_values(ascending=False)
top_merchants(df, tie) ==
    sort_values(head(value_counts(df.rows, "ShopName", tie), TopN), tie)

generate_top_merchant_table(weekly_df, daily_df, tie) ==
    Pair(~empty(weekly_df) /\ "ShopName" \in weekly_df.columns,
         [title |-> "Top Merchant (Weekly)",
          columns |-> <<"Merchant", "No. of Coupon Used">>,
          data |-> top_merchants(weekly_df, tie)],
         ~empty(daily_df) /\ "ShopName" \in daily_df.columns,
         [title |-> "Top Merchant (All Records)",
          columns |-> <<"Merchant", "No. of Coupon Used">>,
          data |-> top_merchants(daily_df, tie)])

category_usage(df, tie) ==
    sort_values(value_counts(df.rows, "Sales Category", tie), tie)

generate_merchant_category_table(weekly_df, daily_df, tie) ==
    Pair(~empty(weekly_df) /\ "Sales Category" \in weekly_df.columns,
         [title |-> "Merchant Category (Weekly)",
          columns |-> <<"Merchant Category", "No. of Coupon Used">>,
          data |-> category_usage(weekly_df, tie)],
         ~empty(daily_df) /\ "Sales Category" \in daily_df.columns,
         [title |-> "Merchant Category (All Records)",
          columns |-> <<"Merchant Category", "No. of Coupon Used">>,
          data |-> category_usage(daily_df, tie)])

\* Mutant of generate_summary_tables: every aggregator's result is stored,
\* also when it is None.
generate_summary_tables_keep_none(weekly_df, daily_df, tie) ==
    [k \in {"coupon_purchased", "distributed_coupon", "used_market",
            "top_merchant", "merchant_category"} |->
        CASE k = "coupon_purchased" -> generate_coupon_purchased_table(weekly_df)
          [] k = "distributed_coupon" -> generate_distributed_coupon_table(weekly_df)
          [] k = "used_market" -> generate_used_market_table(weekly_df, daily_df, tie)
          [] k = "top_merchant" -> generate_top_merchant_table(weekly_df, daily_df, tie)
          [] OTHER -> generate_merchant_category_table(weekly_df, daily_df, tie)]

\* generate_summary_tables: each aggregator's result is kept when it is one.
generate_summary_tables(weekly_df, daily_df, tie) ==
    LET results == [k \in {"coupon_purchased", "distributed_coupon", "used_market",
                           "top_merchant", "merchant_category"} |->
            CASE k = "coupon_purchased" -> generate_coupon_purchased_table(weekly_df)
              [] k = "distributed_coupon" -> generate_distributed_coupon_table(weekly_df)
              [] k = "used_market" -> generate_used_market_table(weekly_df, daily_df, tie)
              [] k = "top_merchant" -> generate_top_merchant_table(weekly_df, daily_df, tie)
              [] OTHER -> generate_merchant_category_table(weekly_df, daily_df, tie)]
    IN  [k \in {k \in DOMAIN results : results[k] # None} |-> results[k]]

-----------------------------------------------------------------------------
(* generate_pivot_worksheet *)

DISPLAY_ALIAS == "U-shiduo"     \* the literal "U" followed by U+58EB U+591A

\* Mutant of replace_marae: only a name equal to the raw name is replaced.
replace_marae_exact(x) == IF x = "MARAE LIMITED" THEN DISPLAY_ALIAS ELSE x

\* str(x).replace("MARAE LIMITED", alias) if "MARAE LIMITED" in str(x) else x:
\* every occurrence of the raw name inside the name is replaced.
replace_marae(x) ==
    CASE x = "MARAE LIMITED" -> DISPLAY_ALIAS
      [] x = "MARAE LIMITED (TKO)" -> "U-shiduo (TKO)"
      [] OTHER -> x

pivot_market_col(df) ==
    IF "NameChinese" \in df.columns THEN "NameChinese"
    ELSE IF "Market" \in df.columns THEN "Market"
    ELSE IF "MarketCode" \in df.columns THEN "MarketCode"
    ELSE "None"

\* groupby([market_col, 'ShopName']).size() restricted to one market: one
\* entry per merchant of the market, ascending by merchant name; rows with a
\* missing merchant are in no group.
tenant_data(rows, market_col, market) ==
    LET inMarket == SelectSeq(rows, LAMBDA r : r[market_col] = market)
        shops == sorted({inMarket[i]["ShopName"] : i \in 1..Len(inMarket)}
                        \ {NaN("ShopName")})
    IN  [i \in 1..Len(shops) |->
            [key |-> replace_marae(shops[i]),
             count |-> CountOf(inMarket, "ShopName", shops[i])]]

\* Mutant of pivot_markets: the markets in order of first appearance.
pivot_markets_first_seen(rows, market_col) == unique(rows, market_col)

\* The markets in the order the pivot loop visits them.
pivot_markets(rows, market_col) ==
    sorted(Range(unique(rows, market_col)))

RECURSIVE pivot_rows(_, _, _, _)
pivot_rows(markets, rows, market_col, tie) ==
    IF Len(markets) = 0 THEN << >>
    ELSE LET market == Head(markets)
             market_tenants == sort_values(tenant_data(rows, market_col, market), tie)
         IN  <<[Market |-> market, Tenant |-> "",
                Count_of_coupon_uid |-> CountOf(rows, market_col, market)]>>
             \o [i \in 1..Len(market_tenants) |->
                    [Market |-> "", Tenant |-> market_tenants[i].key,
                     Count_of_coupon_uid |-> market_tenants[i].count]]
             \o pivot_rows(Tail(markets), rows, market_col, tie)

generate_pivot_worksheet(daily_df, tie) ==
    LET market_col == pivot_market_col(daily_df)
    IN  IF market_col = "None" \/ "ShopName" \notin daily_df.columns THEN None
        ELSE [rows |-> pivot_rows(pivot_markets(daily_df.rows, market_col),
                                  daily_df.rows, market_col, tie)]

-----------------------------------------------------------------------------
(* generate_market_worksheets.  A dict is a sequence of [sheet, df] entries *)
(* in insertion order; assigning an existing key replaces its value in      *)
(* place.                                                                   *)

RECURSIVE dict_set(_, _, _)
dict_set(d, key, value) ==
    IF Len(d) = 0 THEN <<[sheet |-> key, df |-> value]>>
    ELSE IF Head(d).sheet = key THEN <<[sheet |-> key, df |-> value]>> \o Tail(d)
    ELSE <<Head(d)>> \o dict_set(Tail(d), key, value)

\* dict.update(other)
RECURSIVE dict_update(_, _)
dict_update(d, other) ==
    IF Len(other) = 0 THEN d
    ELSE dict_update(dict_set(d, Head(other).sheet, Head(other).df), Tail(other))

\* str(market)[:31], then / \ * [ ] : ? replaced by "_".  The two long names
\* have 36 characters and share their first 31; every other name used here
\* is shorter, and only "MktX/1" and "MktX:1" hold a replaced character.
clean_sheet_name(market) ==
    CASE market = "Kowloon Bay Weekend Food Market East" -> "Kowloon Bay Weekend Food Market"
      [] market = "Kowloon Bay Weekend Food Market West" -> "Kowloon Bay Weekend Food Market"
      [] market = "MktX/1" -> "MktX_1"
      [] market = "MktX:1" -> "MktX_1"
      [] OTHER -> market

Max(a, b) == IF a > b THEN a ELSE b

\* set(daily_df[daily_df[market_col] == market]['ShopName'].dropna().unique())
all_tenants_in_market(daily_df, market_col, market) ==
    Range(unique(SelectSeq(daily_df.rows, LAMBDA r : r[market_col] = market), "ShopName"))

\* Mutant of tenants_with_usage_in_market: the merchants of the market's rows
\* that carry a category.
tenants_with_category(market_data) ==
    Range(unique(SelectSeq(market_data, LAMBDA r : r["Sales Category"] # ""), "ShopName"))

\* set(market_data['ShopName'].dropna().unique())
tenants_with_usage_in_market(market_data) == Range(unique(market_data, "ShopName"))

\* The worksheet of one market: the usage block on the left, the merchant
\* list on the right, two header rows on top, the shorter block padded.
market_worksheet(daily_df, market_col, market, tie) ==
    LET market_data == SelectSeq(daily_df.rows, LAMBDA r : r[market_col] = market)
        tenant_usage == sort_values(value_counts(market_data, "ShopName", tie), tie)
        left_data == [i \in 1..Len(tenant_usage) |->
                        [name |-> replace_marae(tenant_usage[i].key),
                         count |-> tenant_usage[i].count]]
        tenants == sorted(all_tenants_in_market(daily_df, market_col, market))
        merchant_rows == [i \in 1..Len(tenants) |->
                            [Market |-> market,
                             Tenant |-> replace_marae(tenants[i]),
                             HaveCouponUsed |->
                                IF tenants[i] \in tenants_with_usage_in_market(market_data)
                                THEN "Y" ELSE "N"]]
        n_count == Cardinality({i \in 1..Len(merchant_rows) :
                                    merchant_rows[i].HaveCouponUsed = "N"})
        max_rows == Max(Len(left_data), Len(merchant_rows)) + 2
    IN  [i \in 1..max_rows |->
            [used |-> IF i = 1 THEN <<"Data of Coupon Used", "">>
                      ELSE IF i = 2 THEN <<"Tenant", "Count">>
                      ELSE IF i - 2 <= Len(left_data)
                      THEN <<left_data[i - 2].name, left_data[i - 2].count>>
                      ELSE <<"", "">>,
             spacing |-> "",
             merchants |-> IF i = 1 THEN <<"Merchant List (Accept Food Coupon)", "", "", "">>
                           ELSE IF i = 2
                           THEN <<"Market", "Tenant", "Have Coupon Used", n_count>>
                           ELSE IF i - 2 <= Len(merchant_rows)
                           THEN <<merchant_rows[i - 2].Market, merchant_rows[i - 2].Tenant,
                                  merchant_rows[i - 2].HaveCouponUsed, "">>
                           ELSE <<"", "", "", "">>]]

RECURSIVE market_sheets(_, _, _, _)
market_sheets(markets, daily_df, market_col, tie) ==
    IF Len(markets) = 0 THEN << >>
    ELSE LET market == markets[Len(markets)]
         IN  dict_set(market_sheets(SubSeq(markets, 1, Len(markets) - 1),
                                    daily_df, market_col, tie),
                      clean_sheet_name(market),
                      [rows |-> market_worksheet(daily_df, market_col, market, tie)])

generate_market_worksheets(daily_df, tie) ==
    LET market_col == pivot_market_col(daily_df)
    IN  IF market_col = "None" \/ "ShopName" \notin daily_df.columns THEN << >>
        ELSE market_sheets(unique(daily_df.rows, market_col), daily_df, market_col, tie)

-----------------------------------------------------------------------------
(* Uploaded files.  A file name is [stem, ext] (ext "" when the name has no *)
(* dot); an upload is [filename, content]; content is [kind, ...] with kind *)
(* "unreadable" for anything the reader raises on.                          *)

ALLOWED_EXTENSIONS == {"xlsx", "xls", "csv"}

lower(ext) == CASE ext = "CSV" -> "csv" [] OTHER -> ext

NoFilename == [stem |-> "", ext |-> ""]

allowed_file(filename) ==
    filename.ext # "" /\ lower(filename.ext) \in ALLOWED_EXTENSIONS

\* werkzeug.secure_filename on the names used here: whitespace becomes "_".
secure_filename(filename) ==
    [stem |-> CASE filename.stem = "week 1" -> "week_1"
                [] filename.stem = "my summary" -> "my_summary"
                [] OTHER -> filename.stem,
     ext |-> filename.ext]

temp_path(prefix, filename) == <<prefix, secure_filename(filename)>>

\* read_excel_file: the frame of the file, or None when reading raises.
read_excel_file(content) ==
    IF content.kind = "unreadable" THEN None ELSE content.df

\* Mutant of read_excel_sheet: a workbook without the named sheet is read
\* from its first sheet.
read_excel_sheet_any(filename, content, sheet_name) ==
    IF content.kind = "unreadable" THEN None ELSE content.df

\* read_excel_sheet: a .csv path is read whole, the sheet name ignored;
\* otherwise the named sheet must exist.
read_excel_sheet(filename, content, sheet_name) ==
    IF content.kind = "unreadable" THEN None
    ELSE IF filename.ext = "csv" THEN content.df
    ELSE IF sheet_name \in content.sheets THEN content.df
    ELSE None

\* str.strip() on the names used here: leading and trailing whitespace goes.
strip(x) == CASE x = "ShopB " -> "ShopB" [] x = " " -> "" [] OTHER -> x

\* astype(str): a missing cell becomes the string 'nan'.
astype_str(v) == IF v = "NaN" THEN "nan" ELSE v

\* pd.Series(categories, index=tenants).to_dict() over the stripped cells of
\* the mapping file's rows: the last row of a key wins.
to_dict(rows) ==
    LET key(i) == strip(astype_str(rows[i].Tenant))
    IN  [k \in {key(i) : i \in 1..Len(rows)} |->
            LET last == CHOOSE i \in 1..Len(rows) :
                            /\ key(i) = k
                            /\ \A j \in (i + 1)..Len(rows) : key(j) # k
            IN  strip(astype_str(rows[last].Category))]

\* load_sales_category_mapping: the Tenant -> Sales Category dict, or None
\* when the file cannot be read or lacks one of the two columns.
load_sales_category_mapping(content) ==
    IF content.kind = "unreadable" THEN None
    ELSE IF "Tenant" \notin content.columns \/ "Sales Category" \notin content.columns
    THEN None
    ELSE to_dict(content.rows)

\* Series.fillna('')
fillna(c, v) == IF isna(c, v) THEN "" ELSE v

\* dict.get(x, '')
get(mapping, x) == IF x \in DOMAIN mapping THEN mapping[x] ELSE ""

\* add_sales_category: None when the frame has no ShopName column (raises).
add_sales_category(df, sales_category_mapping) ==
    IF "ShopName" \notin df.columns THEN None
    ELSE DataFrame(df.columns \cup {"Sales Category"},
            [i \in 1..Len(df.rows) |->
                [df.rows[i] EXCEPT !["Sales Category"] =
                    get(sales_category_mapping,
                        strip(fillna("ShopName", df.rows[i]["ShopName"])))]])

\* Mutant of process_market_files: the loop ends at the first file that
\* cannot be read or enriched.
RECURSIVE process_market_files_break(_, _)
process_market_files_break(market_files, mapping) ==
    IF Len(market_files) = 0 THEN [data |-> << >>, files |-> << >>]
    ELSE LET file == Head(market_files)
             rest == process_market_files_break(Tail(market_files), mapping)
             df == read_excel_file(file.content)
             enriched == IF df = None THEN None ELSE add_sales_category(df, mapping)
         IN  IF file.filename = NoFilename \/ ~allowed_file(file.filename) THEN rest
             ELSE IF enriched = None THEN [data |-> << >>, files |-> << >>]
             ELSE [data |-> <<enriched>> \o rest.data,
                   files |-> <<secure_filename(file.filename)>> \o rest.files]

\* The market-file loop of process_reports: [data, files], the frames and the
\* secured names of the files that were read and enriched, in upload order.
RECURSIVE process_market_files(_, _)
process_market_files(market_files, mapping) ==
    IF Len(market_files) = 0 THEN [data |-> << >>, files |-> << >>]
    ELSE LET file == Head(market_files)
             rest == process_market_files(Tail(market_files), mapping)
             df == read_excel_file(file.content)
             enriched == IF df = None THEN None ELSE add_sales_category(df, mapping)
         IN  IF file.filename = NoFilename \/ ~allowed_file(file.filename) THEN rest
             ELSE IF enriched = None THEN rest
             ELSE [data |-> <<enriched>> \o rest.data,
                   files |-> <<secure_filename(file.filename)>> \o rest.files]

-----------------------------------------------------------------------------
(* process_reports *)

Parts(req) ==
    (IF Len(req.market_reports) > 0 THEN {"market_reports"} ELSE {}) \cup
    (IF req.summary # None THEN {"summary"} ELSE {}) \cup
    (IF req.sales_category # None THEN {"sales_category"} ELSE {})

\* The paths of the market files the loop saves (and removes in its finally).
market_paths(market_files) ==
    {temp_path("temp_market_", market_files[i].filename) :
        i \in {j \in 1..Len(market_files) :
                /\ market_files[j].filename # NoFilename
                /\ allowed_file(market_files[j].filename)}}

output_filename(timestamp) == <<"combined_report_", timestamp, "xlsx">>

\* What a run leaves behind: the two folders, the response and the values of
\* the handler's locals (None for those it never assigned).
Outcome(up, out, resp, combined, final, tables, pivot, dfs) ==
    [uploads |-> up, outputs |-> out, response |-> resp,
     combined_market_df |-> combined, final_daily_finance_df |-> final,
     tables_data |-> tables, pivot_df |-> pivot, dfs_to_save |-> dfs]

Rejected(up, out, error) ==
    Outcome(up, out, [status |-> 400, error |-> error], None, None, None, None, None)

\* Lines 678-723: combine, aggregate, build the workbook, write it, clean up.
finish_reports(up, out, req, sales_category_path, summary_path, daily_finance_df, processed) ==
    LET combined == concat(processed.data)
        final == concat(<<daily_finance_df, combined>>)
        tables == generate_summary_tables(combined, final, req.tie)
        pivot == generate_pivot_worksheet(final, req.tie)
        name == output_filename(req.timestamp)
        dfs == dict_update(
                 <<[sheet |-> "Daily Finance Report", df |-> final],
                   [sheet |-> "Weekly", df |-> combined]>>
                 \o (IF pivot # None THEN <<[sheet |-> "Pivot", df |-> pivot]>> ELSE << >>),
                 generate_market_worksheets(final, req.tie))
    IN  IF req.write = "ok"
        THEN Outcome(up \ {summary_path, sales_category_path}, out \cup {name},
                [status |-> 200,
                 output_filename |-> name,
                 total_records |-> Len(final.rows),
                 previous_records |-> Len(daily_finance_df.rows),
                 new_records |-> Len(combined.rows),
                 market_files_processed |-> processed.files],
                combined, final, tables, pivot, dfs)
        ELSE \* save_dataframes_to_excel raises: the outer except answers 500
             Outcome(up, IF req.write = "fails_partial" THEN out \cup {name} ELSE out,
                [status |-> 500, error |-> "Server error"],
                combined, final, tables, pivot, dfs)

process_reports(up, out, req) ==
    IF Parts(req) # {"market_reports", "summary", "sales_category"}
    THEN Rejected(up, out, "All three files are required")
    ELSE IF \/ req.market_reports[1].filename = NoFilename
            \/ req.summary.filename = NoFilename
            \/ req.sales_category.filename = NoFilename
    THEN Rejected(up, out, "All files must be selected")
    ELSE
    LET sales_category_path == temp_path("temp_sales_category_", req.sales_category.filename)
        sales_category_mapping == load_sales_category_mapping(req.sales_category.content)
        summary_path == temp_path("temp_summary_", req.summary.filename)
        daily_finance_df ==
            read_excel_sheet(secure_filename(req.summary.filename), req.summary.content,
                             "Daily Finance Report")
        processed == process_market_files(req.market_reports, sales_category_mapping)
        up1 == up \cup {sales_category_path}
        up2 == up1 \cup {summary_path}
        up3 == up2 \ market_paths(req.market_reports)
    IN  IF sales_category_mapping = None
        THEN Rejected(up1 \ {sales_category_path}, out, "Sales Category file error")
        ELSE IF daily_finance_df = None
        THEN Rejected(up2 \ {summary_path, sales_category_path}, out, "Summary file error")
        ELSE IF Len(processed.data) = 0
        THEN Rejected(up3 \ {summary_path, sales_category_path}, out,
                      "No valid market reports processed")
        ELSE finish_reports(up3, out, req, sales_category_path, summary_path,
                            daily_finance_df, processed)

-----------------------------------------------------------------------------
(* Inputs *)

Shops == {"MARAE LIMITED", "ShopB"}
Markets == {"X", "Y"}

SJS_C == <<"S", "J", "S", " ", "C">>        \* short name SJS
a_sjs == <<"a", " ", "s", "j", "s">>        \* short name SJS (case-insensitive)
Ab_Cd == <<"A", "b", " ", "C", "d">>        \* short name Ab (first token)
Clients == {SJS_C, a_sjs, Ab_Cd}
CouponValues == {10, 20}

\* A market has a name, a localized name and a code.
market_id(c, m) ==
    IF m = "NaN" THEN "NaN"
    ELSE IF c = "Market" THEN (IF m = "X" THEN "MktX" ELSE "MktY")
    ELSE IF c = "NameChinese" THEN (IF m = "X" THEN "NmX" ELSE "NmY")
    ELSE (IF m = "X" THEN "CdX" ELSE "CdY")

\* A row of a frame with columns cols: merchant, market, client and coupon
\* value in the columns the frame has, NaN elsewhere.
Row(cols, shop, m, client, value) ==
    [c \in AllColumns |->
        IF c \notin cols THEN NaN(c)
        ELSE IF c = "ShopName" THEN shop
        ELSE IF c \in {"Market", "NameChinese", "MarketCode"} THEN market_id(c, m)
        ELSE IF c = "client_name" THEN client
        ELSE IF c \in NumColumns THEN value
        ELSE ""]

SeqsUpTo(S, n) == UNION {[1..k -> S] : k \in 0..n}

ReportColumns == {"ShopName", "Market", "client_name", "CouponValue"}
LedgerColumns == ReportColumns \cup {"Sales Category"}

r1 == Row(ReportColumns, "MARAE LIMITED", "X", SJS_C, 10)
r2 == Row(ReportColumns, "ShopB ", "Y", a_sjs, 20)
r3 == Row(ReportColumns \ {"client_name"}, "NaN", "X", << >>, 10)

File(stem, ext) == [stem |-> stem, ext |-> ext]
Unreadable == [kind |-> "unreadable"]
Frame(df) == [kind |-> "frame", df |-> df]
Upload(filename, content) == [filename |-> filename, content |-> content]

\* The files a client may attach as market reports.
GoodMarketUploads ==
    {Upload(File("a", "csv"), Frame(DataFrame(ReportColumns, <<r1>>))),
     Upload(File("week 1", "csv"), Frame(DataFrame(ReportColumns, <<r2, r1>>))),
     Upload(File("e", "csv"), Frame(DataFrame(ReportColumns \ {"client_name"}, <<r3>>))),
     Upload(File("h", "csv"), Frame(DataFrame(ReportColumns, << >>)))}

BadMarketUploads ==
    {Upload(File("b", "xlsx"), Unreadable),
     Upload(File("c", "csv"),
            Frame(DataFrame(ReportColumns \ {"ShopName"},
                            <<Row(ReportColumns \ {"ShopName"}, "NaN", "Y", Ab_Cd, 20)>>))),
     Upload(File("notes", "txt"), Frame(DataFrame(ReportColumns, <<r1>>))),
     Upload(NoFilename, Unreadable)}

MarketUploads == GoodMarketUploads \cup BadMarketUploads

Workbook(sheets, df) == [kind |-> "frame", sheets |-> sheets, df |-> df]

l1 == [Row(LedgerColumns, "ShopB", "X", a_sjs, 20) EXCEPT !["Sales Category"] = "Food"]

GoodSummaryUploads ==
    {Upload(File("my summary", "xlsx"),
            Workbook({"Daily Finance Report", "Weekly"}, DataFrame(LedgerColumns, << >>))),
     Upload(File("my summary", "xlsx"),
            Workbook({"Daily Finance Report"}, DataFrame(LedgerColumns, <<l1, l1>>))),
     Upload(File("summary", "csv"), Workbook({}, DataFrame(LedgerColumns, <<l1>>)))}

BadSummaryUploads ==
    {Upload(NoFilename, Unreadable),
     Upload(File("my summary", "xlsx"), Unreadable),
     Upload(File("my summary", "xlsx"), Workbook({"Sheet1"}, DataFrame(LedgerColumns, <<l1>>)))}

SummaryUploads == GoodSummaryUploads \cup BadSummaryUploads

\* A mapping file: its columns and its rows of (Tenant, Sales Category) cells.
MapRow(tenant, category) == [Tenant |-> tenant, Category |-> category]

Mapping(columns, rows) == [kind |-> "frame", columns |-> columns, rows |-> rows]

GoodSalesUploads ==
    {Upload(File("cat", "xlsx"),
            Mapping({"Tenant", "Sales Category"},
                    <<MapRow("ShopB ", "Food"), MapRow("MARAE LIMITED", "Grocery")>>))}

BadSalesUploads ==
    {Upload(NoFilename, Unreadable),
     Upload(File("cat", "xlsx"), Unreadable),
     Upload(File("cat", "xlsx"), Mapping({"Tenant"}, << >>))}

SalesUploads == GoodSalesUploads \cup BadSalesUploads

Timestamps == {"20260101_120000"}

\* A request: the market_reports part (no file: the part is absent), the
\* summary and sales_category parts (None: absent), whether the workbook can
\* be written ("fails_partial": the failed write leaves a file behind), the
\* clock and the order of equal counts.  Every combination of the three parts
\* with at most one market file, and every list of up to MaxFiles market
\* files with a category and a summary file that load (the order of equal
\* counts varies where the workbook is written).
Requests ==
    [market_reports : SeqsUpTo(MarketUploads, 1),
     summary : SummaryUploads \cup {None},
     sales_category : SalesUploads \cup {None},
     write : {"ok"},
     timestamp : Timestamps,
     tie : {"first"}]
    \cup
    [market_reports : SeqsUpTo(MarketUploads, MaxFiles),
     summary : GoodSummaryUploads,
     sales_category : GoodSalesUploads,
     write : {"ok"},
     timestamp : Timestamps,
     tie : TieOrders]
    \cup
    [market_reports : SeqsUpTo(MarketUploads, MaxFiles),
     summary : GoodSummaryUploads,
     sales_category : GoodSalesUploads,
     write : {"fails", "fails_partial"},
     timestamp : Timestamps,
     tie : {"first"}]

-----------------------------------------------------------------------------
(* The request/response cycle *)

Init ==
    /\ uploads = {}
    /\ outputs = {}
    /\ request = None
    /\ response = None
    /\ combined_market_df = None
    /\ final_daily_finance_df = None
    /\ tables_data = None
    /\ pivot_df = None
    /\ dfs_to_save = None

\* POST /process-reports: the whole handler, from the request to its response.
ProcessReports ==
    /\ response = None
    /\ \E req \in Requests :
        \E run \in {process_reports(uploads, outputs, req)} :
            /\ request' = req
            /\ uploads' = run.uploads
            /\ outputs' = run.outputs
            /\ response' = run.response
            /\ combined_market_df' = run.combined_market_df
            /\ final_daily_finance_df' = run.final_daily_finance_df
            /\ tables_data' = run.tables_data
            /\ pivot_df' = run.pivot_df
            /\ dfs_to_save' = run.dfs_to_save

\* The response is sent; the handler's locals are gone, the folders stay.
Respond ==
    /\ response # None
    /\ request' = None
    /\ response' = None
    /\ combined_market_df' = None
    /\ final_daily_finance_df' = None
    /\ tables_data' = None
    /\ pivot_df' = None
    /\ dfs_to_save' = None
    /\ UNCHANGED <<uploads, outputs>>

Next == ProcessReports \/ Respond

Spec == Init /\ [][Next]_vars

-----------------------------------------------------------------------------
(* The tables of accumulated ledgers.  The ledger written by one run is the *)
(* summary of the next: each step appends one enriched batch to the ledger  *)
(* and builds the tables and the Pivot of the result (lines 678-699).       *)

MarketColumnSets == SUBSET {"Market", "NameChinese", "MarketCode"}

ClientColumnSets ==
    {{"client_name", "CouponValue"}, {"client_name", "coupon_amount"},
     {"client_name", "CouponValue", "coupon_amount"}, {"client_name"}, {"CouponValue"}}

\* The column sets of the market reports of a behaviour.
TableColumnSets ==
    {{"ShopName"} \cup M : M \in MarketColumnSets} \cup
    {{"ShopName", "Market"} \cup C : C \in ClientColumnSets}

\* The rows of a market report with columns cols.
BatchRows(cols) ==
    IF cols = {"ShopName", "Market", "NameChinese"}
    THEN {Row(cols, shop, m, << >>, 0) : shop \in Shops \cup {"NaN"}, m \in Markets}
         \cup {Row(cols, "MARAE LIMITED", "NaN", << >>, 0)}
    ELSE IF cols = {"ShopName", "Market", "client_name", "CouponValue"}
    THEN {Row(cols, "ShopB", "X", c, v) : c \in {SJS_C, a_sjs}, v \in CouponValues}
         \cup {Row(cols, "ShopB", "X", Ab_Cd, 20), Row(cols, "ShopB", "X", << >>, 10)}
    ELSE {Row(cols, "MARAE LIMITED", "X", SJS_C, 10), Row(cols, "ShopB", "Y", a_sjs, 20)}

DefaultMapping == [t \in {"ShopB"} |-> "Food"]

InitTables ==
    /\ uploads = {}
    /\ outputs = {}
    /\ request = None
    /\ response = None
    /\ combined_market_df = None
    /\ \E cols \in TableColumnSets :
        final_daily_finance_df = DataFrame(cols \cup {"Sales Category"}, << >>)
    /\ tables_data = None
    /\ pivot_df = None
    /\ dfs_to_save = None

\* One run on the ledger of the last one: combined_market_df is the batch,
\* final_daily_finance_df the ledger with the batch appended.
Summarise(batch, tie) ==
    \E final \in {concat(<<final_daily_finance_df, batch>>)} :
        /\ combined_market_df' = batch
        /\ final_daily_finance_df' = final
        /\ tables_data' = generate_summary_tables(batch, final, tie)
        /\ pivot_df' = generate_pivot_worksheet(final, tie)
        /\ UNCHANGED <<uploads, outputs, request, response, dfs_to_save>>

AppendBatch ==
    \E rows \in SeqsUpTo(BatchRows(final_daily_finance_df.columns \ {"Sales Category"}),
                         MaxLedger - Len(final_daily_finance_df.rows)) :
      \E tie \in TieOrders :
        Summarise(add_sales_category(
                    DataFrame(final_daily_finance_df.columns \ {"Sales Category"}, rows),
                    DefaultMapping), tie)

NextTables == AppendBatch

SpecTables == InitTables /\ [][NextTables]_vars

-----------------------------------------------------------------------------
(* Ledgers with more merchants than the Top-Merchant table holds: a         *)
(* baseline with one row for each of the first k merchants, and one batch.  *)

TNames == <<"T01", "T02", "T03", "T04", "T05", "T06", "T07", "T08", "T09", "T10",
            "T11", "T12", "T13", "T14", "T15", "T16", "T17", "T18", "T19", "T20">>

TopColumns == {"ShopName", "Market"}

\* The batch has rows of the merchants around the cut.
TopRows == {Row(TopColumns, TNames[i], "X", << >>, 0) : i \in (TopN - 2)..NumMerchants}

InitTop ==
    /\ uploads = {}
    /\ outputs = {}
    /\ request = None
    /\ response = None
    /\ combined_market_df = None
    /\ \E k \in (TopN - 1)..NumMerchants :
        final_daily_finance_df =
            DataFrame(TopColumns \cup {"Sales Category"},
                      [i \in 1..k |-> [Row(TopColumns, TNames[i], "X", << >>, 0)
                                        EXCEPT !["Sales Category"] = ""]])
    /\ tables_data = None
    /\ pivot_df = None
    /\ dfs_to_save = None

AppendTopBatch ==
    /\ combined_market_df = None
    /\ \E rows \in SeqsUpTo(TopRows, MaxExtra) :
        \E tie \in TieOrders :
            Summarise(add_sales_category(DataFrame(TopColumns, rows), DefaultMapping), tie)

NextTop == AppendTopBatch

SpecTop == InitTop /\ [][NextTop]_vars

-----------------------------------------------------------------------------
(* The workbook of a successful request, for ledgers whose market names     *)
(* need cleaning or are the names of the fixed sheets, and whose merchants  *)
(* carry the aliased name: lines 678-723 on a summary and one market file   *)
(* that were read.                                                          *)

SheetColumns == {"ShopName", "Market"}

LongEast == "Kowloon Bay Weekend Food Market East"
LongWest == "Kowloon Bay Weekend Food Market West"

\* A row of merchant shop in the market named market.
SheetRow(shop, market) ==
    [Row(SheetColumns, shop, "X", << >>, 0) EXCEPT !["Market"] = market]

SheetRows ==
    {SheetRow("MARAE LIMITED", "MktX/1"), SheetRow("ShopB", "MktX/1"),
     SheetRow("MARAE LIMITED (TKO)", "MktX:1"),
     SheetRow("ShopB", LongEast), SheetRow("MARAE LIMITED", LongWest),
     SheetRow("ShopB", "Weekly"), SheetRow("NaN", "Daily Finance Report"),
     SheetRow("ShopB", "NaN")}

\* The summary's ledger: empty, or one row of an earlier run.
SheetBaselines ==
    {DataFrame(SheetColumns \cup {"Sales Category"}, << >>),
     DataFrame(SheetColumns \cup {"Sales Category"},
               <<[SheetRow("ShopB", "MktX") EXCEPT !["Sales Category"] = "Food"]>>)}

SheetRequests ==
    [market_reports : {<<Upload(File("a", "csv"), Frame(DataFrame(SheetColumns, rows)))>> :
                            rows \in SeqsUpTo(SheetRows, MaxLedger) \ {<< >>}},
     summary : {Upload(File("summary", "csv"), Workbook({}, df)) : df \in SheetBaselines},
     sales_category : GoodSalesUploads,
     write : {"ok"},
     timestamp : Timestamps,
     tie : TieOrders]

InitSheets == Init

BuildWorkbook ==
    /\ response = None
    /\ \E req \in SheetRequests :
        \E run \in {process_reports(uploads, outputs, req)} :
            /\ request' = req
            /\ uploads' = run.uploads
            /\ outputs' = run.outputs
            /\ response' = run.response
            /\ combined_market_df' = run.combined_market_df
            /\ final_daily_finance_df' = run.final_daily_finance_df
            /\ tables_data' = run.tables_data
            /\ pivot_df' = run.pivot_df
            /\ dfs_to_save' = run.dfs_to_save

NextSheets == BuildWorkbook \/ Respond

SpecSheets == InitSheets /\ [][NextSheets]_vars

-----------------------------------------------------------------------------
(* Category enrichment: a mapping file is loaded and one batch is enriched  *)
(* (lines 626 and 660).                                                     *)

\* Rows of a mapping file: a key with trailing whitespace, the same key
\* again, a key in another case, a blank Tenant cell and a missing one.
MapRows ==
    {MapRow("ShopB ", "Food"), MapRow("ShopB", "Snack"), MapRow("shopb", "Lower"),
     MapRow(" ", "Misc"), MapRow("NaN", "Other")}

EnrichColumns == {"ShopName", "Market"}

\* Merchant cells of a batch: names as mapped, padded, in another case,
\* unmapped, and a missing cell.
EnrichShops == {"ShopB", "ShopB ", "shopb", "MARAE LIMITED", "NaN"}

EnrichBatches ==
    {DataFrame(EnrichColumns, rows) :
        rows \in SeqsUpTo({Row(EnrichColumns, shop, "X", << >>, 0) : shop \in EnrichShops},
                          MaxMapRows)}
    \cup {DataFrame({"Market"}, <<Row({"Market"}, "NaN", "X", << >>, 0)>>)}

InitEnrich == Init

\* One market file enriched with the mapping of one category file; the
\* batch stays None when add_sales_category raises.
Enrich ==
    /\ request = None
    /\ \E rows \in SeqsUpTo(MapRows, MaxMapRows), df \in EnrichBatches :
        LET content == Mapping({"Tenant", "Sales Category"}, rows)
        IN  /\ request' = [sales_category |-> Upload(File("cat", "xlsx"), content),
                           market_reports |-> <<Upload(File("a", "csv"), Frame(df))>>]
            /\ combined_market_df' =
                    add_sales_category(df, load_sales_category_mapping(content))
    /\ UNCHANGED <<uploads, outputs, response, final_daily_finance_df, tables_data,
                   pivot_df, dfs_to_save>>

NextEnrich == Enrich

SpecEnrich == InitEnrich /\ [][NextEnrich]_vars

-----------------------------------------------------------------------------
(* Properties of process_reports (specification Spec) *)

AllParts == {"market_reports", "summary", "sales_category"}

\* The request carries the three parts and every one names a file.
WellFormed(req) ==
    /\ Parts(req) = AllParts
    /\ req.market_reports[1].filename # NoFilename
    /\ req.summary.filename # NoFilename
    /\ req.sales_category.filename # NoFilename

CategoryLoads(req) ==
    /\ req.sales_category.content.kind = "frame"
    /\ {"Tenant", "Sales Category"} \subseteq req.sales_category.content.columns

SummaryReads(req) ==
    /\ req.summary.content.kind = "frame"
    /\ \/ req.summary.filename.ext = "csv"
       \/ "Daily Finance Report" \in req.summary.content.sheets

\* The market file is read and enriched.
Succeeds(file) ==
    /\ allowed_file(file.filename)
    /\ file.content.kind = "frame"
    /\ "ShopName" \in file.content.df.columns

\* The handler gets as far as the market-file loop.
ReachesLoop(req) == WellFormed(req) /\ CategoryLoads(req) /\ SummaryReads(req)

Succeeded(req) == SelectSeq(req.market_reports, Succeeds)

\* The temp files the run saved: the category file once the request is well
\* formed, the summary file once the category file loaded (the market files
\* are saved and removed inside the loop).
SavedInputs(req) ==
    IF ~WellFormed(req) THEN {}
    ELSE {<<"temp_sales_category_", secure_filename(req.sales_category.filename)>>} \cup
         (IF CategoryLoads(req)
          THEN {<<"temp_summary_", secure_filename(req.summary.filename)>>} ELSE {}) \cup
         (IF CategoryLoads(req) /\ SummaryReads(req)
          THEN {<<"temp_market_", secure_filename(req.market_reports[i].filename)>> :
                    i \in 1..Len(req.market_reports)}
          ELSE {})

\* C1: every run that returns a response (200, 400 or 500) leaves none of
\* the temp input files it saved in the upload folder.
C1_NoTempFileLeft ==
    response # None => SavedInputs(request) \cap uploads = {}

\* A validation failure: a part missing or unselected, the category file
\* unreadable or without its columns, the summary unreadable or without the
\* sheet, or no market file processed.
ValidationFailure(req) ==
    \/ ~WellFormed(req)
    \/ ~CategoryLoads(req)
    \/ ~SummaryReads(req)
    \/ Len(Succeeded(req)) = 0

\* C2: a run that ends with a validation failure answers 400 and writes no
\* output workbook: the output folder is as it was and no workbook was built.
C2_ValidationIs400 ==
    [][(response = None /\ response' # None /\ ValidationFailure(request'))
        => /\ response'.status = 400
           /\ outputs' = outputs
           /\ dfs_to_save' = None]_vars

C2_Witness ==
    /\ response # None
    /\ ReachesLoop(request)
    /\ Len(request.market_reports) = 2
    /\ Len(Succeeded(request)) = 0
    /\ response.status = 400
    /\ outputs # {}

\* C3: a market file that cannot be read or enriched is skipped and the loop
\* goes on; the run answers 400 exactly when no market file succeeded, and a
\* run that answers 200 lists exactly the files that succeeded, in upload order.
C3_MarketFilesSkipped ==
    (response # None /\ ReachesLoop(request)) =>
        /\ (response.status = 400) <=> (Len(Succeeded(request)) = 0)
        /\ Len(Succeeded(request)) > 0 =>
            /\ Len(combined_market_df.rows) =
                Len(ConcatRows([i \in 1..Len(Succeeded(request)) |->
                                    Succeeded(request)[i].content.df]))
        /\ response.status = 200 =>
            response.market_files_processed =
                [i \in 1..Len(Succeeded(request)) |->
                    secure_filename(Succeeded(request)[i].filename)]

C3_Witness ==
    /\ response # None
    /\ response.status = 200
    /\ Len(request.market_reports) = 2
    /\ ~Succeeds(request.market_reports[1])
    /\ request.market_reports[1].filename.ext = "csv"
    /\ response.market_files_processed = <<File("week_1", "csv")>>


AggregatorKeys == {"coupon_purchased", "distributed_coupon", "used_market",
                   "top_merchant", "merchant_category"}

\* The result of one aggregator on the frames of the run (None: no result).
AggregatorResult(k, weekly_df, daily_df, tie) ==
    CASE k = "coupon_purchased" -> generate_coupon_purchased_table(weekly_df)
      [] k = "distributed_coupon" -> generate_distributed_coupon_table(weekly_df)
      [] k = "used_market" -> generate_used_market_table(weekly_df, daily_df, tie)
      [] k = "top_merchant" -> generate_top_merchant_table(weekly_df, daily_df, tie)
      [] OTHER -> generate_merchant_category_table(weekly_df, daily_df, tie)

Produced(weekly_df, daily_df, tie) ==
    {k \in AggregatorKeys : AggregatorResult(k, weekly_df, daily_df, tie) # None}

\* C4: whichever aggregators fail, the result set holds exactly the entries of
\* those that produced a result, and the run goes on to build the workbook
\* (and answers 200 when the workbook can be written).
C4_AggregatorsIsolated ==
    (response # None /\ ReachesLoop(request) /\ Len(Succeeded(request)) > 0) =>
        /\ tables_data # None
        /\ DOMAIN tables_data =
            Produced(combined_market_df, final_daily_finance_df, request.tie)
        /\ \A k \in DOMAIN tables_data :
            tables_data[k] = AggregatorResult(k, combined_market_df,
                                              final_daily_finance_df, request.tie)
        /\ dfs_to_save # None
        /\ request.write = "ok" => response.status = 200

C4_Witness ==
    /\ response # None
    /\ response.status = 200
    /\ DOMAIN tables_data = {"distributed_coupon", "used_market", "top_merchant",
                             "merchant_category"}
    /\ dfs_to_save # None

\* A row without its category cell.
Uncategorised(row) == [row EXCEPT !["Sales Category"] = ""]

NewRows(req) ==
    ConcatRows([i \in 1..Len(Succeeded(req)) |-> Succeeded(req)[i].content.df])

\* C5: on a successful request the ledger is the baseline rows in their order
\* followed by the rows of the processed market files in upload order, none
\* dropped, deduplicated or reordered; total_records = previous_records +
\* new_records.
C5_LedgerIsConcatenation ==
    (response # None /\ response.status = 200) =>
        LET base == request.summary.content.df.rows
            new == NewRows(request)
            ledger == final_daily_finance_df.rows
        IN  /\ Len(ledger) = Len(base) + Len(new)
            /\ \A i \in 1..Len(base) : ledger[i] = base[i]
            /\ \A j \in 1..Len(new) :
                Uncategorised(ledger[Len(base) + j]) = Uncategorised(new[j])
            /\ response.previous_records = Len(base)
            /\ response.new_records = Len(new)
            /\ response.total_records = Len(ledger)
            /\ response.total_records =
                response.previous_records + response.new_records

\* Two market files that share a row, appended to a baseline with a repeated row.
C5_Witness ==
    /\ response # None
    /\ response.status = 200
    /\ response.previous_records = 2
    /\ response.market_files_processed = <<File("a", "csv"), File("week_1", "csv")>>
    /\ response.total_records = 5
    /\ Uncategorised(final_daily_finance_df.rows[3]) =
        Uncategorised(final_daily_finance_df.rows[5])

-----------------------------------------------------------------------------
(* Properties of the tables (specifications SpecTables and SpecTop) *)

\* C6: for every set of ledger columns the Pivot builder resolves the market
\* column as the Used-Market aggregator does: 'Market', then 'NameChinese',
\* then 'MarketCode'.
C6_SameMarketColumn ==
    (pivot_df # None /\ Len(pivot_df.rows) > 0) =>
        /\ pivot_market_col(final_daily_finance_df) = used_market_col(final_daily_finance_df)
        /\ "used_market" \in DOMAIN tables_data =>
            {pivot_df.rows[i].Market : i \in 1..Len(pivot_df.rows)} \ {""} =
            {tables_data["used_market"]["all"].data[i].key :
                i \in 1..Len(tables_data["used_market"]["all"].data)}

\* The rows of the batch with a client name and a coupon value.
ClientRows(df) ==
    {i \in 1..Len(df.rows) :
        /\ ~isna("client_name", df.rows[i]["client_name"])
        /\ ~isna(coupon_value_col(df), df.rows[i][coupon_value_col(df)])}

HasCouponColumns(df) ==
    /\ "client_name" \in df.columns
    /\ coupon_value_col(df) \in df.columns

\* C7: the Coupon-Purchased cell (client, value) is the number of batch rows
\* whose derived short name is client and whose coupon value is value, also
\* when distinct raw names derive the same short name; every (client, value)
\* pair of the batch has its row and column.
C7_CouponCellsAreCounts ==
    (combined_market_df # None /\ HasCouponColumns(combined_market_df)
        /\ ClientRows(combined_market_df) # {}) =>
        LET df == combined_market_df
            col == coupon_value_col(df)
            short(i) == get_client_short_name(df.rows[i]["client_name"])
        IN  /\ "coupon_purchased" \in DOMAIN tables_data
            /\ \A i \in ClientRows(df) :
                LET data == tables_data["coupon_purchased"].data
                IN  /\ short(i) \in DOMAIN data
                    /\ df.rows[i][col] \in DOMAIN data[short(i)]
                    /\ data[short(i)][df.rows[i][col]] =
                        Cardinality({j \in ClientRows(df) :
                            /\ short(j) = short(i)
                            /\ df.rows[j][col] = df.rows[i][col]})

\* The Used-Market and Top-Merchant tables of the run.
CountTables ==
    IF tables_data = None THEN {}
    ELSE UNION {{tables_data[k][w].data : w \in DOMAIN tables_data[k]} :
                    k \in {"used_market", "top_merchant"} \cap DOMAIN tables_data}

\* C8 as stated: every Used-Market and Top-Merchant table is strictly
\* descending by count.
C8_StrictlyDescending ==
    \A t \in CountTables : \A i \in 1..(Len(t) - 1) : t[i].count > t[i + 1].count

\* C8 as amended: every Used-Market and Top-Merchant table (weekly and all
\* records) is sorted by count descending, equal counts allowed: no row's
\* count is smaller than the count of the row after it.
C8_NonIncreasing ==
    \A t \in CountTables : \A i \in 1..(Len(t) - 1) : t[i].count >= t[i + 1].count

\* A table whose order differs from the order of first appearance, with a tie.
C8_Witness ==
    /\ tables_data # None
    /\ "used_market" \in DOMAIN tables_data
    /\ "all" \in DOMAIN tables_data["used_market"]
    /\ LET t == tables_data["used_market"]["all"].data
       IN  /\ Len(t) = 2
           /\ t[1].count > t[2].count
           /\ final_daily_finance_df.rows[1]["Market"] = t[2].key
    /\ LET m == tables_data["top_merchant"]["all"].data
       IN  Len(m) = 2 /\ m[1].count = m[2].count

\* The distinct merchants of a frame.
Merchants(df) == {df.rows[i]["ShopName"] : i \in 1..Len(df.rows)} \ {NaN("ShopName")}

TopMerchantIsTop(df, t) ==
    LET listed == {t[i].key : i \in 1..Len(t)}
    IN  /\ Len(t) <= 15
        /\ Len(t) = Min(15, Cardinality(Merchants(df)))
        /\ Cardinality(listed) = Len(t)
        /\ listed \subseteq Merchants(df)
        /\ \A i \in 1..Len(t) : t[i].count = CountOf(df.rows, "ShopName", t[i].key)
        /\ \A m \in Merchants(df) \ listed : \A i \in 1..Len(t) :
            CountOf(df.rows, "ShopName", m) <= t[i].count

\* C9: every Top-Merchant table has min(15, number of distinct merchants)
\* rows, and they are the top merchants by count: no merchant left out has a
\* count greater than a merchant in the table.
C9_TopFifteen ==
    (tables_data # None /\ "top_merchant" \in DOMAIN tables_data) =>
        /\ "weekly" \in DOMAIN tables_data["top_merchant"] =>
            TopMerchantIsTop(combined_market_df, tables_data["top_merchant"]["weekly"].data)
        /\ "all" \in DOMAIN tables_data["top_merchant"] =>
            TopMerchantIsTop(final_daily_finance_df, tables_data["top_merchant"]["all"].data)

\* More than 15 merchants, and one first seen after 15 others is in the table.
C9_Witness ==
    /\ tables_data # None
    /\ Cardinality(Merchants(final_daily_finance_df)) > 15
    /\ LET t == tables_data["top_merchant"]["all"].data
       IN  /\ Len(t) = 15
           /\ t[1].key = "T17"
           /\ t[1].count = 3
           /\ \E i \in 1..15 : t[i].key = "T16"

\* The market and merchant values of the ledger the Pivot is built from.
PivotMarkets(df) ==
    {df.rows[i][pivot_market_col(df)] : i \in 1..Len(df.rows)} \ {"NaN"}

PivotMerchants(df, market) ==
    {df.rows[i]["ShopName"] :
        i \in {j \in 1..Len(df.rows) : df.rows[j][pivot_market_col(df)] = market}}
    \ {"NaN"}

PairCount(df, market, shop) ==
    Cardinality({i \in 1..Len(df.rows) :
        /\ df.rows[i][pivot_market_col(df)] = market
        /\ df.rows[i]["ShopName"] = shop})

\* The position of the total row that the row at position i belongs to.
BlockOf(rows, i) ==
    CHOOSE t \in 1..i :
        /\ rows[t].Tenant = ""
        /\ \A u \in (t + 1)..i : rows[u].Tenant # ""

\* C10: the Pivot is, for each market with a ledger row and in ascending
\* market order, a total row (market, empty merchant, the market's count)
\* followed by one row per merchant of the market (empty market, merchant,
\* count), counts non-increasing within the market; there are no other rows.
C10_PivotLayout ==
    pivot_df # None =>
        LET df == final_daily_finance_df
            rows == pivot_df.rows
            totals == {i \in 1..Len(rows) : rows[i].Tenant = ""}
            tenants == (1..Len(rows)) \ totals
        IN  /\ Len(rows) > 0 => 1 \in totals
            /\ {rows[t].Market : t \in totals} = PivotMarkets(df)
            /\ Cardinality(totals) = Cardinality(PivotMarkets(df))
            /\ \A t, u \in totals : t < u => Ord(rows[t].Market) < Ord(rows[u].Market)
            /\ \A t \in totals :
                /\ rows[t].Count_of_coupon_uid =
                    CountOf(df.rows, pivot_market_col(df), rows[t].Market)
                /\ LET block == {i \in tenants : BlockOf(rows, i) = t}
                       shops == PivotMerchants(df, rows[t].Market)
                   IN  /\ Cardinality(block) = Cardinality(shops)
                       /\ \A shop \in shops : \E i \in block :
                            /\ rows[i].Tenant = replace_marae(shop)
                            /\ rows[i].Count_of_coupon_uid =
                                PairCount(df, rows[t].Market, shop)
            /\ \A i \in tenants :
                /\ rows[i].Market = ""
                /\ (i + 1) \in tenants =>
                    rows[i].Count_of_coupon_uid >= rows[i + 1].Count_of_coupon_uid

\* Two markets first seen in descending order, and a merchant first seen
\* second listed first.
C10_Witness ==
    /\ pivot_df # None
    /\ Len(final_daily_finance_df.rows) = 3
    /\ final_daily_finance_df.rows[1][pivot_market_col(final_daily_finance_df)] = "NmY"
    /\ pivot_df.rows =
        <<[Market |-> "NmX", Tenant |-> "", Count_of_coupon_uid |-> 1],
          [Market |-> "", Tenant |-> DISPLAY_ALIAS, Count_of_coupon_uid |-> 1],
          [Market |-> "NmY", Tenant |-> "", Count_of_coupon_uid |-> 2],
          [Market |-> "", Tenant |-> "ShopB", Count_of_coupon_uid |-> 2]>>

\* The sum of the counts of the merchant rows from position i up to the
\* next total row.
RECURSIVE BlockSum(_, _)
BlockSum(rows, i) ==
    IF i > Len(rows) \/ rows[i].Tenant = "" THEN 0
    ELSE rows[i].Count_of_coupon_uid + BlockSum(rows, i + 1)

\* C16: in the Pivot the count on each market's total row is the sum of the
\* counts of the merchant rows of its block, for every ledger, also with
\* rows whose merchant is missing.
C16_TotalIsSumOfMerchants ==
    pivot_df # None =>
        \A t \in 1..Len(pivot_df.rows) :
            pivot_df.rows[t].Tenant = "" =>
                pivot_df.rows[t].Count_of_coupon_uid = BlockSum(pivot_df.rows, t + 1)

-----------------------------------------------------------------------------
(* Properties of the workbook (specification SpecSheets) *)

\* The names that hold the raw name "MARAE LIMITED".
RawNames == {"MARAE LIMITED", "MARAE LIMITED (TKO)"}

\* A sheet's table is a market worksheet (it has the two blocks).
IsWorksheet(df) ==
    /\ "columns" \notin DOMAIN df
    /\ Len(df.rows) > 0
    /\ "used" \in DOMAIN df.rows[1]

\* The market worksheets of the workbook.
MarketSheets ==
    IF dfs_to_save = None THEN {}
    ELSE {dfs_to_save[i] : i \in {j \in 1..Len(dfs_to_save) : IsWorksheet(dfs_to_save[j].df)}}

\* The merchant cells of a worksheet: the names of the left usage block and
\* of the right coverage block (the rows under the two header rows).
MerchantCells(df) ==
    {df.rows[i].used[1] : i \in 3..Len(df.rows)} \cup
    {df.rows[i].merchants[2] : i \in 3..Len(df.rows)}

\* The market a worksheet lists merchants of (none when it lists no merchant).
SheetMarkets(df) == {df.rows[i].merchants[1] : i \in 3..Len(df.rows)} \ {""}

\* C11: no merchant field of the Pivot and no merchant cell of a market
\* worksheet (usage block or coverage block) holds the raw name "MARAE
\* LIMITED": a merchant whose name holds it is shown under the name with the
\* alias in its place, in the Pivot and in the worksheet of its market.
C11_RawNameNeverShown ==
    (response # None /\ response.status = 200) =>
        /\ pivot_df # None
        /\ \A i \in 1..Len(pivot_df.rows) : pivot_df.rows[i].Tenant \notin RawNames
        /\ \A sheet \in MarketSheets : MerchantCells(sheet.df) \cap RawNames = {}
        /\ \A r \in Range(final_daily_finance_df.rows) :
            (r["ShopName"] \in RawNames /\ r["Market"] # "NaN") =>
                /\ \E i \in 1..Len(pivot_df.rows) :
                    pivot_df.rows[i].Tenant =
                        (IF r["ShopName"] = "MARAE LIMITED" THEN DISPLAY_ALIAS
                         ELSE "U-shiduo (TKO)")
                /\ \A sheet \in MarketSheets :
                    r["Market"] \in SheetMarkets(sheet.df) =>
                        (IF r["ShopName"] = "MARAE LIMITED" THEN DISPLAY_ALIAS
                         ELSE "U-shiduo (TKO)") \in MerchantCells(sheet.df)

\* A ledger with both raw names; both aliased names are in the Pivot and in
\* the worksheets.
C11_Witness ==
    /\ response # None
    /\ response.status = 200
    /\ {"MARAE LIMITED", "MARAE LIMITED (TKO)"} \subseteq
        {final_daily_finance_df.rows[i]["ShopName"] : i \in 1..Len(final_daily_finance_df.rows)}
    /\ {DISPLAY_ALIAS, "U-shiduo (TKO)"} \subseteq
        {pivot_df.rows[i].Tenant : i \in 1..Len(pivot_df.rows)}
    /\ {DISPLAY_ALIAS, "U-shiduo (TKO)"} \subseteq
        UNION {MerchantCells(sheet.df) : sheet \in MarketSheets}

\* The distinct non-missing market values of the ledger, in first-seen order.
LedgerMarkets(df) == unique(df.rows, pivot_market_col(df))

\* C12: generate_market_worksheets returns one worksheet for each distinct
\* non-missing market value of the ledger, in first-seen order, keyed by the
\* cleaned market name (31 characters, unsafe characters replaced); there are
\* as many worksheets as distinct market values.
C12_OneSheetPerMarket ==
    (response # None /\ response.status = 200) =>
        LET markets == LedgerMarkets(final_daily_finance_df)
            sheets == generate_market_worksheets(final_daily_finance_df, request.tie)
        IN  /\ Len(sheets) = Len(markets)
            /\ \A i \in 1..Len(markets) :
                /\ sheets[i].sheet = clean_sheet_name(markets[i])
                /\ sheets[i].df.rows =
                    market_worksheet(final_daily_finance_df,
                                     pivot_market_col(final_daily_finance_df),
                                     markets[i], request.tie)

\* The tables stored in the workbook under a sheet name.
SheetsNamed(name) ==
    {dfs_to_save[i].df : i \in {j \in 1..Len(dfs_to_save) : dfs_to_save[j].sheet = name}}

\* C14: in the workbook of a successful request the sheet 'Daily Finance
\* Report' holds the full ledger, 'Weekly' the new batch and 'Pivot' (when
\* generated) the pivot table, whatever the market names: the market
\* worksheets replace none of them.
C14_FixedSheetsKept ==
    (response # None /\ response.status = 200) =>
        /\ SheetsNamed("Daily Finance Report") = {final_daily_finance_df}
        /\ SheetsNamed("Weekly") = {combined_market_df}
        /\ pivot_df # None => SheetsNamed("Pivot") = {pivot_df}

\* The merchants a worksheet lists in its coverage block.
ListedMerchants(df) == {df.rows[i].merchants[2] : i \in 3..Len(df.rows)} \ {""}

\* The names under which the worksheet of a market lists the ledger's
\* merchants of that market.
MarketMerchants(market) ==
    {replace_marae(r["ShopName"]) :
        r \in {x \in Range(final_daily_finance_df.rows) :
                /\ x[pivot_market_col(final_daily_finance_df)] = market
                /\ x["ShopName"] # "NaN"}}

-----------------------------------------------------------------------------
(* Properties of the enrichment (specification SpecEnrich) *)

\* The category the claim gives a merchant cell: the mapping's value for the
\* trimmed name, the empty string when the name is unmapped or missing.
ExpectedCategory(mapping, name) ==
    IF isna("ShopName", name) THEN ""
    ELSE IF strip(name) \in DOMAIN mapping THEN mapping[strip(name)]
    ELSE ""

\* C13: for every mapping and every batch with the merchant column,
\* add_sales_category gives each row the mapping's value for its trimmed
\* merchant name (exact, case-preserving) and the empty string when the name
\* is unmapped or missing, without raising; it raises only when the merchant
\* column is absent.
C13_CategoryOfTrimmedName ==
    request # None =>
        LET df == request.market_reports[1].content.df
            mapping == load_sales_category_mapping(request.sales_category.content)
        IN  IF "ShopName" \notin df.columns THEN combined_market_df = None
            ELSE /\ combined_market_df # None
                 /\ Len(combined_market_df.rows) = Len(df.rows)
                 /\ \A i \in 1..Len(df.rows) :
                    combined_market_df.rows[i]["Sales Category"] =
                        ExpectedCategory(mapping, df.rows[i]["ShopName"])

====
